---- MODULE Spec2Model ----
(***************************************************************************)
(* Vector store clients of the RAG backend (weaviate_client.py and         *)
(* qdrant_client.py): lazy collection provisioning under an asyncio.Lock,  *)
(* store / batch / search / delete handlers, and the backend they talk to. *)
(* RAGChain and EmbeddingChain (base_chain.py) run on top of the Qdrant     *)
(* client: embed, then search and generate, or embed, then store.          *)
(* Beside them: the embedding and generation clients called directly       *)
(* (voyage_client.py, cerebras_client.py), create_document under the       *)
(* session of get_db (documents.py, database.py), and enforce_rate_limit   *)
(* over its Redis counters (rate_limit.py).                                *)
(* Every await of the source is a suspension point; the code between two   *)
(* awaits runs atomically on the event loop and is one action here.        *)
(***************************************************************************)
EXTENDS Integers, Sequences, FiniteSets, TLC

\* ----------------------------------------------------------------- bounds
NumTasks == 2
MaxCalls == 2
MaxBatch == 2
MaxResults == 2
Scale == 2
MaxTime == 2

\* ------------------------------------------------------ program constants
VOYAGE_EMBEDDING_DIMENSION == 1024

Tasks == 1 .. NumTasks
Stores == {"weaviate", "qdrant"}

\* A vector is represented by its length: the only thing the clients look at.
VecLens == {VOYAGE_EMBEDDING_DIMENSION, VOYAGE_EMBEDDING_DIMENSION + 1}

\* Identifiers a caller may pass as point_id; 0 stands for None.
GivenIds == {1}
Uuid(n) == 100 + n

\* None / missing key in a backend response
None == -1

VARIABLES
    store,          \* which client the chain was built with
    class_ready,    \* WeaviateVectorStore._class_ready
    lock_holder,    \* WeaviateVectorStore._class_lock: the task holding it, 0 if free
    lock_waiters,   \* FIFO of tasks suspended in _class_lock.acquire()
    remote_class,   \* backend: the class / collection exists
    objects,        \* backend: the records of the collection, [id, doc]
    uuid_next,      \* number of uuid4() values drawn so far
    pc,             \* per task: the await it is suspended at
    op,             \* per task: the handler running and its arguments
    point_ids,      \* per task: the local point_id / point_ids
    result,         \* per task: how the handler ended
    ret,            \* per task: the value returned
    trace,          \* per task: what the running call has done so far (history)
    calls,          \* handlers started so far
    faulted,        \* a request has failed in transit or in the backend (history)
    create_requests,\* create-collection requests sent so far (history)
    prov_ok,        \* _ensure_collection_once runs that set _class_ready (history)
    prov_failed,    \* a run of _ensure_collection_once has raised (history)
    chain,          \* per task: the RAGChain / EmbeddingChain run it is in
    provider,       \* per task: the call of VoyageClient / CerebrasClient it is in
    endpoint,       \* per task: the create_document request it serves
    limiter         \* the clock, the Redis counters and the calls of enforce_rate_limit

vars == <<store, class_ready, lock_holder, lock_waiters, remote_class, objects,
          uuid_next, pc, op, point_ids, result, ret, trace, calls, faulted,
          create_requests, prov_ok, prov_failed, chain, provider, endpoint, limiter>>

\* The state outside the vector store clients and the chains
outer == <<provider, endpoint, limiter>>

\* The state of the vector store clients and their backend, `faulted` apart
clients == <<store, class_ready, lock_holder, lock_waiters, remote_class, objects,
             uuid_next, pc, op, point_ids, result, ret, trace, calls,
             create_requests, prov_ok, prov_failed>>

NoOp == [kind |-> "none", vlens |-> <<>>, nmeta |-> 0, pid |-> 0, limit |-> 0, thr |-> 0]

\* net: requests sent; ensured: _ensure_collection_once (or ensure_collection)
\* returned; prov: it ran ensure_collection under the lock; waited: it was
\* suspended on the lock; sawFail: provisioning failed while it was suspended;
\* created: its create request took effect; wrote: records it wrote;
\* reported: the backend's reply reported an error; reply: the entries of the
\* GraphQL reply its search got; open: the httpx.AsyncClient instances it has
\* opened and not closed
NoTrace == [net |-> 0, ensured |-> FALSE, prov |-> FALSE, waited |-> FALSE, created |-> FALSE,
            wrote |-> 0, sawFail |-> FALSE, reported |-> FALSE, reply |-> <<>>, open |-> 0]

\* A task outside RAGChain.run and EmbeddingChain.run.  issued: the remote
\* steps started so far, in order (history); embed: the embedding requests
\* the run has sent
NoChain == [kind |-> "none", step |-> "idle", query |-> 0, top_k |-> 0, score_threshold |-> 0,
            documents |-> 0, issued |-> <<>>, embed |-> <<>>, search_results |-> <<>>, context |-> <<>>,
            sources |-> <<>>, prompt |-> <<>>, result |-> "none", ret |-> <<>>]

\* A task outside the provider clients.  sent: the requests the call has
\* handed to the provider's backend (history)
NoProvider == [kind |-> "none", step |-> "idle", texts |-> <<>>, input_type |-> "none",
               max_tokens |-> None, temperature |-> None, sent |-> <<>>, result |-> "none"]

\* A task outside create_document.  row: the document row in the session's
\* transaction; vector_id: the row's vector_id column, 0 for NULL; before: the
\* ids the collection held when the request came in (history); raising: the
\* exception on its way out of the handler
NoEndpoint == [step |-> "idle", row |-> "none", vector_id |-> 0, vector_ids |-> <<>>,
               before |-> {}, raising |-> "none", result |-> "none"]

\* ------------------------------------------------------------ rate limiting
\* The limits the dependencies of rate_limit.py are built with, per scope
RateLimits ==
    [auth |-> [requests_per_window |-> 1, window_seconds |-> 1],
     ai |-> [requests_per_window |-> 2, window_seconds |-> 2]]

Scopes == DOMAIN RateLimits
Identifiers == {1, 2}

\* rate_limit.py _rate_limit_key: bucket = int(time.time()) // window_seconds
RateLimitKey(scope, identifier, window_seconds, now) ==
    [scope |-> scope, identifier |-> identifier, bucket |-> now \div window_seconds]

Keys == [scope : Scopes, identifier : Identifiers, bucket : 0 .. MaxTime]

\* A key Redis does not hold
NoCounter == [count |-> 0, expires |-> 0]

\* A task outside enforce_rate_limit.  rank: how many calls had been counted
\* under its key when its own was (history)
NoLimit == [step |-> "idle", key |-> <<>>, count |-> 0, rank |-> 0, retry_after_seconds |-> 0,
            result |-> "none"]

\* now: the clock in seconds; redis: the counters of the keys Redis holds;
\* started: calls made so far; counted, admitted: per key, the calls counted
\* and the calls let through (history)
NoLimiter == [now |-> 0, redis |-> <<>>, started |-> 0, counted |-> <<>>, admitted |-> <<>>,
              call |-> [t \in 1 .. NumTasks |-> NoLimit]]

\* The counter Redis holds for a key
Counter(redis, key) == IF key \in DOMAIN redis THEN redis[key] ELSE NoCounter

\* The number a history holds for a key
CountOf(history, key) == IF key \in DOMAIN history THEN history[key] ELSE 0

\* f with the value of key set to v
With(f, key, v) == [k \in DOMAIN f \cup {key} |-> IF k = key THEN v ELSE f[k]]

RECURSIVE SeqsUpTo(_, _)
SeqsUpTo(S, n) ==
    IF n = 0 THEN {<<>>}
    ELSE LET shorter == SeqsUpTo(S, n - 1)
         IN  shorter \cup {Append(s, x) : s \in {q \in shorter : Len(q) = n - 1}, x \in S}

\* ------------------------------------------------------- handler arguments
StoreEmbeddingArgs ==
    {[kind |-> "store_embedding", vlens |-> <<l>>, nmeta |-> 1, pid |-> p, limit |-> 0, thr |-> 0] :
        l \in VecLens, p \in {0} \cup GivenIds}

StoreBatchArgs ==
    {[kind |-> "store_batch", vlens |-> v, nmeta |-> m, pid |-> 0, limit |-> 0, thr |-> 0] :
        v \in SeqsUpTo(VecLens, MaxBatch), m \in 0 .. MaxBatch}

SearchArgs ==
    {[kind |-> "search_similar", vlens |-> <<l>>, nmeta |-> 0, pid |-> 0, limit |-> k, thr |-> th] :
        l \in VecLens, k \in 1 .. MaxResults, th \in 0 .. Scale}

DeleteArgs ==
    {[kind |-> "delete_by_id", vlens |-> <<>>, nmeta |-> 0, pid |-> p, limit |-> 0, thr |-> 0] :
        p \in GivenIds \cup {Uuid(1)}}

EnsureArgs ==
    {[kind |-> "ensure_collection", vlens |-> <<>>, nmeta |-> 0, pid |-> 0, limit |-> 0, thr |-> 0]}

\* ------------------------------------------------------------ search replies
\* One entry of a Weaviate GraphQL reply: _additional.certainty and
\* _additional.distance, each possibly absent.  Scores are fixed point:
\* Scale stands for 1.0; a distance of Scale + 1 stands for any distance > 1.
\* The distance of an entry that has a certainty is never read: such an entry
\* comes without a distance or with the largest one.
SearchEntries ==
    {e \in [certainty : {None} \cup (0 .. Scale), distance : {None} \cup (0 .. Scale + 1)] :
        e.certainty # None => e.distance \in {None, Scale + 1}}

Max(a, b) == IF a >= b THEN a ELSE b
Min(a, b) == IF a <= b THEN a ELSE b

\* The conversion without its max(0.0, ...)
ScoreUnclamped(e) ==
    IF e.certainty # None THEN e.certainty
    ELSE LET distance == IF e.distance = None THEN Scale ELSE e.distance
         IN  Scale - distance

\* weaviate_client.py: score = certainty, else max(0.0, 1.0 - distance),
\* a missing distance read as 1.0
Score(e) ==
    IF e.certainty # None THEN e.certainty
    ELSE LET distance == IF e.distance = None THEN Scale ELSE e.distance
         IN  Max(0, Scale - distance)

\* The formatting loop without its threshold test
KeepScoreAlways(score, score_threshold) == TRUE

\* The threshold test of the formatting loop
KeepScore(score, score_threshold) == score >= score_threshold

\* weaviate_client.py: the loop building formatted_results; the id of an entry
\* is its position in the reply
RECURSIVE FormatFrom(_, _, _)
FormatFrom(results, i, score_threshold) ==
    IF i > Len(results) THEN <<>>
    ELSE LET score == Score(results[i])
             rest == FormatFrom(results, i + 1, score_threshold)
         IN  IF KeepScore(score, score_threshold)
             THEN <<[id |-> i, score |-> score]>> \o rest
             ELSE rest

FormatResults(results, score_threshold) == FormatFrom(results, 1, score_threshold)

\* The backend honours the `limit` of the generated query
WeaviateReplies(limit) == SeqsUpTo(SearchEntries, Min(limit, MaxResults))

IsDescending(r) == \A i \in 1 .. Len(r) - 1 : r[i].score >= r[i + 1].score

\* Qdrant's search applies limit and score_threshold itself and ranks by score
QdrantReplies(limit, score_threshold) ==
    {r \in SeqsUpTo([id : 1 .. MaxResults, score : 0 .. Scale], Min(limit, MaxResults)) :
        /\ \A i \in 1 .. Len(r) : r[i].score >= score_threshold
        /\ IsDescending(r)}

\* ------------------------------------------------------------ asyncio.Lock
\* An acquire() that never waits
LockIdleUnguarded == TRUE

\* acquire() takes the lock at once only when it is free and nobody waits
LockIdle == lock_holder = 0 /\ lock_waiters = <<>>

\* ---------------------------------------------------- synchronous segments
\* The code a handler runs between two awaits, as the record of its effect:
\* where it suspends or ends, the ids it drew, the requests it sent.
BadDimension(o) == \E i \in 1 .. Len(o.vlens) : o.vlens[i] # VOYAGE_EMBEDDING_DIMENSION

FirstBad(o) == CHOOSE i \in 1 .. Len(o.vlens) :
                  /\ o.vlens[i] # VOYAGE_EMBEDDING_DIMENSION
                  /\ \A j \in 1 .. i - 1 : o.vlens[j] = VOYAGE_EMBEDDING_DIMENSION

Raised(err, u) == [pc |-> "done", result |-> err, ret |-> <<>>, ids |-> <<>>, uuid |-> u, sent |-> 0]

Sent(ids, u) == [pc |-> "request", result |-> "none", ret |-> <<>>, ids |-> ids, uuid |-> u, sent |-> 1]

\* uuid4 giving the same value at every call
NewIdsRepeated(u, n) == [i \in 1 .. n |-> Uuid(u + 1)]

\* The ids of n successive uuid4() calls
NewIds(u, n) == [i \in 1 .. n |-> Uuid(u + i)]

\* _validate_dimension as the handlers of the Weaviate client call it
ValidateDimension(o) == o.kind \in {"store_embedding", "store_batch", "search_similar"} /\ BadDimension(o)

\* store_batch's comparison of the two list lengths
LengthMismatch(o) == o.kind = "store_batch" /\ Len(o.vlens) # o.nmeta

\* Weaviate handlers, from the return of _ensure_collection_once to the request
WeaviateProceed(o, u) ==
    IF LengthMismatch(o) THEN Raised("ValueError", u)
    ELSE IF ValidateDimension(o)
         THEN Raised("ValueError", IF o.kind = "store_batch" THEN u + FirstBad(o) - 1 ELSE u)
    ELSE IF o.kind = "store_embedding"
         THEN IF o.pid # 0 THEN Sent(<<o.pid>>, u) ELSE Sent(NewIds(u, 1), u + 1)
    ELSE IF o.kind = "store_batch" THEN Sent(NewIds(u, Len(o.vlens)), u + Len(o.vlens))
    ELSE IF o.kind = "delete_by_id" THEN Sent(<<o.pid>>, u)
    ELSE Sent(<<>>, u)

\* Qdrant handlers, from their entry to the request
QdrantProceed(o, u) ==
    IF LengthMismatch(o) THEN Raised("ValueError", u)
    ELSE IF o.kind = "store_embedding"
         THEN IF o.pid # 0 THEN Sent(<<o.pid>>, u) ELSE Sent(NewIds(u, 1), u + 1)
    ELSE IF o.kind = "store_batch" THEN Sent(NewIds(u, Len(o.vlens)), u + Len(o.vlens))
    ELSE IF o.kind = "delete_by_id" THEN Sent(<<o.pid>>, u)
    ELSE Sent(<<>>, u)

\* ensure_collection, from its entry to the schema / collection listing request
ListRequest(u) == [pc |-> "get_schema", result |-> "none", ret |-> <<>>, ids |-> <<>>, uuid |-> u, sent |-> 1]

Blocked(u) == [pc |-> "waiting", result |-> "none", ret |-> <<>>, ids |-> <<>>, uuid |-> u, sent |-> 0]

\* How an exception leaves a handler: every handler logs and re-raises, but
\* delete_by_id logs and returns False
Except(o, err, u) ==
    IF o.kind = "delete_by_id"
    THEN [pc |-> "done", result |-> "returned", ret |-> <<FALSE>>, ids |-> <<>>, uuid |-> u, sent |-> 0]
    ELSE Raised(err, u)

Returned(rv, u) == [pc |-> "done", result |-> "returned", ret |-> rv, ids |-> <<>>, uuid |-> u, sent |-> 0]

\* A client closed after the request only when nothing was raised
StillOpenUnlessReturned(held, p) == IF p.result \in {"none", "returned"} THEN 0 ELSE held

\* weaviate_client.py _request and delete_by_id: the request is awaited inside
\* `async with httpx.AsyncClient(...)`, which closes the client when the block
\* is left, by return or by exception.  Of the `held` clients of the request
\* just answered, the number still open when segment p begins
StillOpen(held, p) == 0

\* Task t moves as segment p says, with tr what its call has done so far; with
\* `mark`, the tasks suspended on the lock note that provisioning failed.
Local(t, p, tr, mark) ==
    /\ pc' = [pc EXCEPT ![t] = p.pc]
    /\ result' = [result EXCEPT ![t] = p.result]
    /\ ret' = [ret EXCEPT ![t] = p.ret]
    /\ point_ids' = [point_ids EXCEPT ![t] = p.ids]
    /\ uuid_next' = p.uuid
    /\ trace' = [u \in Tasks |->
                    IF u = t THEN [tr EXCEPT !.net = @ + p.sent, !.open = StillOpen(@, p) + p.sent]
                    ELSE IF mark /\ pc[u] = "waiting" THEN [trace[u] EXCEPT !.sawFail = TRUE]
                    ELSE trace[u]]

\* ------------------------------------------------------------------- Init
Init ==
    /\ store \in Stores
    /\ class_ready = FALSE
    /\ lock_holder = 0
    /\ lock_waiters = <<>>
    /\ remote_class \in BOOLEAN
    /\ objects = {}
    /\ uuid_next = 0
    /\ pc = [t \in Tasks |-> "idle"]
    /\ op = [t \in Tasks |-> NoOp]
    /\ point_ids = [t \in Tasks |-> <<>>]
    /\ result = [t \in Tasks |-> "none"]
    /\ ret = [t \in Tasks |-> <<>>]
    /\ trace = [t \in Tasks |-> NoTrace]
    /\ calls = 0
    /\ faulted = FALSE
    /\ create_requests = 0
    /\ prov_ok = 0
    /\ prov_failed = FALSE
    /\ chain = [t \in Tasks |-> NoChain]
    /\ provider = [t \in Tasks |-> NoProvider]
    /\ endpoint = [t \in Tasks |-> NoEndpoint]
    /\ limiter = NoLimiter

\* ------------------------------------------------- _ensure_collection_once
\* From the entry of _ensure_collection_once to its first suspension, for a
\* task that has just entered the handler
EnsureCollectionOnce(t, o) ==
    IF class_ready
    THEN /\ Local(t, WeaviateProceed(o, uuid_next), [NoTrace EXCEPT !.ensured = TRUE], FALSE)
         /\ UNCHANGED <<lock_holder, lock_waiters>>
    ELSE IF LockIdle
    THEN /\ lock_holder' = t
         /\ Local(t, ListRequest(uuid_next), [NoTrace EXCEPT !.prov = TRUE], FALSE)
         /\ UNCHANGED lock_waiters
    ELSE /\ lock_waiters' = Append(lock_waiters, t)
         /\ Local(t, Blocked(uuid_next), [NoTrace EXCEPT !.waited = TRUE], FALSE)
         /\ UNCHANGED lock_holder

\* A handler that has returned or raised hands its outcome to its caller in
\* the same step of the event loop: no other task runs before Return
NoneDone == \A u \in Tasks : pc[u] # "done"

\* A handler is entered with arguments o and runs to its first await
Enter(t, Args) ==
    /\ NoneDone
    /\ pc[t] = "idle"
    /\ calls < MaxCalls
    /\ \E o \in Args :
        /\ op' = [op EXCEPT ![t] = o]
        /\ IF o.kind = "ensure_collection"
           THEN /\ Local(t, ListRequest(uuid_next), NoTrace, FALSE)
                /\ UNCHANGED <<lock_holder, lock_waiters>>
           ELSE IF store = "qdrant"
           THEN /\ Local(t, QdrantProceed(o, uuid_next), NoTrace, FALSE)
                /\ UNCHANGED <<lock_holder, lock_waiters>>
           ELSE EnsureCollectionOnce(t, o)
    /\ calls' = calls + 1
    /\ UNCHANGED <<store, class_ready, remote_class, objects, faulted,
                   create_requests, prov_ok, prov_failed, outer>>

\* A handler called from outside the chains
Call(t, Args) == chain[t].step = "idle" /\ Enter(t, Args) /\ UNCHANGED chain

\* The lock is handed to the longest waiting task, which re-reads _class_ready
LockGranted(t) ==
    /\ NoneDone
    /\ pc[t] = "waiting"
    /\ lock_holder = 0
    /\ lock_waiters # <<>>
    /\ Head(lock_waiters) = t
    /\ lock_waiters' = Tail(lock_waiters)
    /\ IF class_ready
       THEN /\ lock_holder' = 0
            /\ Local(t, WeaviateProceed(op[t], uuid_next), [trace[t] EXCEPT !.ensured = TRUE], FALSE)
       ELSE /\ lock_holder' = t
            /\ Local(t, ListRequest(uuid_next), [trace[t] EXCEPT !.prov = TRUE], FALSE)
    /\ UNCHANGED <<store, class_ready, remote_class, objects, op, calls, faulted,
                   create_requests, prov_ok, prov_failed, chain, outer>>

\* ------------------------------------------------------- ensure_collection
\* ensure_collection returned: a direct call ends; _ensure_collection_once
\* sets the flag, leaves the lock and the handler goes on
EnsureDone(t, tr) ==
    IF op[t].kind = "ensure_collection"
    THEN /\ Local(t, Returned(<<>>, uuid_next), [tr EXCEPT !.ensured = TRUE], FALSE)
         /\ UNCHANGED <<class_ready, lock_holder, prov_ok, prov_failed>>
    ELSE /\ class_ready' = TRUE
         /\ lock_holder' = 0
         /\ prov_ok' = prov_ok + 1
         /\ Local(t, WeaviateProceed(op[t], uuid_next), [tr EXCEPT !.ensured = TRUE], FALSE)
         /\ UNCHANGED prov_failed

\* _class_ready set before ensure_collection is awaited: it stays set when
\* ensure_collection raises
EnsureFailedMarksReady(t, tr) ==
    IF op[t].kind = "ensure_collection"
    THEN /\ Local(t, Raised("HTTPError", uuid_next), tr, FALSE)
         /\ UNCHANGED <<class_ready, lock_holder, prov_ok, prov_failed>>
    ELSE /\ lock_holder' = 0
         /\ prov_failed' = TRUE
         /\ class_ready' = TRUE
         /\ Local(t, Except(op[t], "HTTPError", uuid_next), tr, TRUE)
         /\ UNCHANGED prov_ok

\* ensure_collection raised and the lock is not released on the way out
EnsureFailedKeepsLock(t, tr) ==
    IF op[t].kind = "ensure_collection"
    THEN /\ Local(t, Raised("HTTPError", uuid_next), tr, FALSE)
         /\ UNCHANGED <<class_ready, lock_holder, prov_ok, prov_failed>>
    ELSE /\ prov_failed' = TRUE
         /\ Local(t, Except(op[t], "HTTPError", uuid_next), tr, TRUE)
         /\ UNCHANGED <<class_ready, lock_holder, prov_ok>>

\* ensure_collection raised: the exception leaves the lock's `async with`
\* and then the handler
EnsureFailed(t, tr) ==
    IF op[t].kind = "ensure_collection"
    THEN /\ Local(t, Raised("HTTPError", uuid_next), tr, FALSE)
         /\ UNCHANGED <<class_ready, lock_holder, prov_ok, prov_failed>>
    ELSE /\ lock_holder' = 0
         /\ prov_failed' = TRUE
         /\ Local(t, Except(op[t], "HTTPError", uuid_next), tr, TRUE)
         /\ UNCHANGED <<class_ready, prov_ok>>

\* An ensure_collection that creates the collection whatever the listing says
SchemaReplyAlwaysCreates(t) ==
    /\ NoneDone
    /\ pc[t] = "get_schema"
    /\ \/ /\ faulted' = TRUE
          /\ EnsureFailed(t, trace[t])
          /\ UNCHANGED create_requests
       \/ /\ create_requests' = create_requests + 1
          /\ Local(t, [ListRequest(uuid_next) EXCEPT !.pc = "post_schema"], trace[t], FALSE)
          /\ UNCHANGED <<faulted, class_ready, lock_holder, prov_ok, prov_failed>>
    /\ UNCHANGED <<store, lock_waiters, remote_class, objects, op, calls, chain, outer>>

\* The reply to GET /v1/schema (get_collections)
SchemaReply(t) ==
    /\ NoneDone
    /\ pc[t] = "get_schema"
    /\ \/ /\ faulted' = TRUE
          /\ EnsureFailed(t, trace[t])
          /\ UNCHANGED create_requests
       \/ /\ remote_class
          /\ EnsureDone(t, trace[t])
          /\ UNCHANGED <<faulted, create_requests>>
       \/ /\ ~remote_class
          /\ create_requests' = create_requests + 1
          /\ Local(t, [ListRequest(uuid_next) EXCEPT !.pc = "post_schema"], trace[t], FALSE)
          /\ UNCHANGED <<faulted, class_ready, lock_holder, prov_ok, prov_failed>>
    /\ UNCHANGED <<store, lock_waiters, remote_class, objects, op, calls, chain, outer>>

\* The reply to POST /v1/schema (create_collection): created, refused because
\* the collection exists by now, failed, or created with the reply lost
CreateReply(t) ==
    /\ NoneDone
    /\ pc[t] = "post_schema"
    /\ \/ /\ ~remote_class
          /\ remote_class' = TRUE
          /\ EnsureDone(t, [trace[t] EXCEPT !.created = TRUE])
          /\ UNCHANGED faulted
       \/ /\ remote_class
          /\ EnsureFailed(t, trace[t])
          /\ UNCHANGED <<faulted, remote_class>>
       \/ /\ faulted' = TRUE
          /\ EnsureFailed(t, trace[t])
          /\ UNCHANGED remote_class
       \/ /\ ~remote_class
          /\ remote_class' = TRUE
          /\ faulted' = TRUE
          /\ EnsureFailed(t, [trace[t] EXCEPT !.created = TRUE])
    /\ UNCHANGED <<store, lock_waiters, objects, op, calls, create_requests, chain, outer>>

\* ------------------------------------------------------- replies to requests
SetOf(ids) == {ids[i] : i \in 1 .. Len(ids)}

\* The ids of the records the collection holds
StoredIds == {r.id : r \in objects}

\* The records of one write request: the i-th point / object of the request
\* carries the i-th id and the i-th document (vector and metadata)
Records(ids) == {[id |-> ids[i], doc |-> i] : i \in 1 .. Len(ids)}

\* upsert (Qdrant) and POST /v1/batch/objects (Weaviate) replace the record
\* an id already has
Upsert(objs, recs) == {r \in objs : r.id \notin {q.id : q \in recs}} \cup recs

Without(objs, id) == {r \in objs : r.id # id}

\* store_batch looking at the reply's top-level "errors" only
StoreBatchResultTopOnly(ids, top, E, u) ==
    IF top THEN Raised("RuntimeError", u) ELSE Returned(ids, u)

\* weaviate_client.py store_batch, from the reply of POST /v1/batch/objects:
\* `top` is the reply's "errors", E the objects whose result carries errors
StoreBatchResult(ids, top, E, u) ==
    IF top THEN Raised("RuntimeError", u)
    ELSE IF E # {} THEN Raised("RuntimeError", u)
    ELSE Returned(ids, u)

\* weaviate_client.py delete_by_id, from the status of the reply
DeleteResult(status, u) ==
    IF status \in {200, 204} THEN Returned(<<TRUE>>, u)
    ELSE IF status = 404 THEN Returned(<<FALSE>>, u)
    ELSE Returned(<<FALSE>>, u)

WeaviateReply(t) ==
    LET o == op[t]
        ids == point_ids[t]
        tr == trace[t]
    IN  \/ /\ o.kind = "store_embedding"
           \* POST /v1/objects creates an object: an id that exists is refused
           \* (422), which _request raises
           /\ IF ids[1] \in StoredIds
              THEN /\ Local(t, Raised("HTTPError", uuid_next), [tr EXCEPT !.reported = TRUE], FALSE)
                   /\ UNCHANGED objects
              ELSE /\ objects' = objects \cup Records(ids)
                   /\ Local(t, Returned(ids, uuid_next), [tr EXCEPT !.wrote = 1], FALSE)
           /\ UNCHANGED faulted
        \/ /\ o.kind = "store_batch"
           /\ \E top \in BOOLEAN, E \in SUBSET (1 .. Len(ids)) :
                /\ top => E = {}
                /\ LET written == IF top THEN {} ELSE {r \in Records(ids) : r.doc \notin E}
                   IN  /\ objects' = Upsert(objects, written)
                       /\ Local(t, StoreBatchResult(ids, top, E, uuid_next),
                                [tr EXCEPT !.wrote = Cardinality(written),
                                           !.reported = top \/ E # {}], FALSE)
           /\ UNCHANGED faulted
        \/ /\ o.kind = "search_similar"
           /\ \/ Local(t, Raised("RuntimeError", uuid_next), [tr EXCEPT !.reported = TRUE], FALSE)
              \/ \E r \in WeaviateReplies(o.limit) :
                    Local(t, Returned(FormatResults(r, o.thr), uuid_next), [tr EXCEPT !.reply = r], FALSE)
           /\ UNCHANGED <<objects, faulted>>
        \/ /\ o.kind = "delete_by_id"
           /\ \/ /\ o.pid \in StoredIds
                 /\ objects' = Without(objects, o.pid)
                 /\ Local(t, DeleteResult(204, uuid_next), tr, FALSE)
                 /\ UNCHANGED faulted
              \/ /\ o.pid \notin StoredIds
                 /\ Local(t, DeleteResult(404, uuid_next), tr, FALSE)
                 /\ UNCHANGED <<objects, faulted>>
              \/ /\ faulted' = TRUE
                 /\ Local(t, DeleteResult(500, uuid_next), tr, FALSE)
                 /\ UNCHANGED objects

\* The collection of the Qdrant backend has a declared vector size: it takes
\* a request only if the collection exists and the vectors have that size
QdrantAccepts(o) == remote_class /\ ~BadDimension(o)

\* qdrant_client.py store_embedding, store_batch and delete_by_id, from the
\* answer to upsert / delete: the ids drawn are returned, delete_by_id
\* returns True whenever delete raised nothing
QdrantResult(o, ids, u) ==
    IF o.kind = "delete_by_id"
    THEN IF remote_class THEN Returned(<<TRUE>>, u) ELSE Except(o, "HTTPError", u)
    ELSE IF QdrantAccepts(o) THEN Returned(ids, u) ELSE Raised("HTTPError", u)

QdrantReply(t) ==
    LET o == op[t]
        ids == point_ids[t]
        tr == trace[t]
    IN  \/ /\ o.kind \in {"store_embedding", "store_batch"}
           /\ IF QdrantAccepts(o)
              THEN /\ objects' = Upsert(objects, Records(ids))
                   /\ Local(t, QdrantResult(o, ids, uuid_next), [tr EXCEPT !.wrote = Len(ids)], FALSE)
              ELSE /\ Local(t, QdrantResult(o, ids, uuid_next), [tr EXCEPT !.reported = TRUE], FALSE)
                   /\ UNCHANGED objects
        \/ /\ o.kind = "search_similar"
           /\ IF QdrantAccepts(o)
              THEN \E r \in QdrantReplies(o.limit, o.thr) : Local(t, Returned(r, uuid_next), tr, FALSE)
              ELSE Local(t, Raised("HTTPError", uuid_next), [tr EXCEPT !.reported = TRUE], FALSE)
           /\ UNCHANGED objects
        \/ /\ o.kind = "delete_by_id"
           /\ IF remote_class
              THEN /\ objects' = Without(objects, o.pid)
                   /\ Local(t, QdrantResult(o, ids, uuid_next), tr, FALSE)
              ELSE /\ Local(t, QdrantResult(o, ids, uuid_next), tr, FALSE)
                   /\ UNCHANGED objects

\* The reply to the handler's own request, or the failure of that request
DataReply(t) ==
    /\ NoneDone
    /\ pc[t] = "request"
    /\ \/ /\ faulted' = TRUE
          /\ Local(t, Except(op[t], "HTTPError", uuid_next), trace[t], FALSE)
          /\ UNCHANGED objects
       \/ /\ store = "weaviate"
          /\ WeaviateReply(t)
       \/ /\ store = "qdrant"
          /\ QdrantReply(t)
          /\ UNCHANGED faulted
    /\ UNCHANGED <<store, class_ready, lock_holder, lock_waiters, remote_class, op,
                   calls, create_requests, prov_ok, prov_failed, chain, outer>>

\* The handler's frame is gone: its outcome is with its caller
Leave(t) ==
    /\ pc[t] = "done"
    /\ pc' = [pc EXCEPT ![t] = "idle"]
    /\ op' = [op EXCEPT ![t] = NoOp]
    /\ result' = [result EXCEPT ![t] = "none"]
    /\ ret' = [ret EXCEPT ![t] = <<>>]
    /\ point_ids' = [point_ids EXCEPT ![t] = <<>>]
    /\ trace' = [trace EXCEPT ![t] = NoTrace]
    /\ UNCHANGED <<store, class_ready, lock_holder, lock_waiters, remote_class, objects,
                   uuid_next, calls, faulted, create_requests, prov_ok, prov_failed, outer>>

\* The caller takes the outcome; the task is free for the next request
Return(t) == chain[t].step = "idle" /\ Leave(t) /\ UNCHANGED chain

\* -------------------------------------------------------------- the chains
\* BaseChain binds vector_store to qdrant_store: the chains run on that store
Queries == {1}

\* Texts are sequences of characters; Separator stands for the "\n\n" of join
Separator == 0

\* The payload the collection holds for a point, which a search returns as
\* the result's metadata: point 1 has no "text" key, point 2 an empty text,
\* every other point its own text
Payload(id) ==
    IF id = 1 THEN [source |-> id]
    ELSE IF id = 2 THEN [text |-> <<>>, source |-> id]
    ELSE [text |-> <<id>>, source |-> id]

\* What cerebras_client.generate may return
Responses == {1, 2}

ChainArgs ==
    {[NoChain EXCEPT !.kind = "query", !.query = q, !.top_k = k, !.score_threshold = th] :
        q \in Queries, k \in 1 .. MaxResults, th \in 0 .. Scale}
    \cup {[NoChain EXCEPT !.kind = "ingest", !.documents = n] : n \in 0 .. MaxBatch}

\* metadata.get("text", "")
TextOf(metadata) == IF "text" \in DOMAIN metadata THEN metadata.text ELSE <<>>

\* "\n\n".join(parts)
RECURSIVE Join(_)
Join(parts) ==
    IF parts = <<>> THEN <<>>
    ELSE IF Len(parts) = 1 THEN parts[1]
    ELSE parts[1] \o <<Separator>> \o Join(Tail(parts))

\* RAGChain.run, the loop over search_results: context_parts and sources
RECURSIVE ContextParts(_)
ContextParts(results) ==
    IF results = <<>> THEN <<>>
    ELSE <<TextOf(Head(results).metadata)>> \o ContextParts(Tail(results))

RECURSIVE SourcesReversed(_)
\* The loop inserting each source at the front of the list
SourcesReversed(results) ==
    IF results = <<>> THEN <<>>
    ELSE SourcesReversed(Tail(results))
         \o <<[id |-> Head(results).id, score |-> Head(results).score, metadata |-> Head(results).metadata]>>

RECURSIVE Sources(_)
Sources(results) ==
    IF results = <<>> THEN <<>>
    ELSE <<[id |-> Head(results).id, score |-> Head(results).score, metadata |-> Head(results).metadata]>>
         \o Sources(Tail(results))

\* ------------------------------------------------- the embedding provider
\* A text is a sequence of characters, <<>> the empty text.  The request
\* VoyageClient hands to client.embed: the texts and the input_type; `stated`
\* notes whether the caller of the method chose that input_type (history)
Omitted == "omitted"

\* voyage_client.py embed_text: input_type="document" is written in the method
EmbedTextRequest(text) == [texts |-> <<text>>, input_type |-> "document", stated |-> TRUE]

\* voyage_client.py embed_query: input_type="query" is written in the method
EmbedQueryRequest(text) == [texts |-> <<text>>, input_type |-> "query", stated |-> TRUE]

\* voyage_client.py embed_batch(texts, input_type="document"): the parameter
\* has a default, taken when the caller passes no input_type
EmbedBatchRequest(texts, input_type) ==
    [texts |-> texts,
     input_type |-> IF input_type = Omitted THEN "document" ELSE input_type,
     stated |-> input_type # Omitted]

\* The embedding call of a chain: RAGChain.run calls embed_query(query),
\* EmbeddingChain.run calls embed_batch(texts) with the texts of the documents
ChainEmbedRequest(c) ==
    IF c.kind = "query" THEN EmbedQueryRequest(<<c.query>>)
    ELSE EmbedBatchRequest([i \in 1 .. c.documents |-> <<i>>], Omitted)

\* A step that issues every remote call twice
ChainStepTwice(c, step) == [c EXCEPT !.step = step, !.issued = Append(Append(@, step), step)]

\* The chain awaits the remote call `step`
ChainStep(c, step) == [c EXCEPT !.step = step, !.issued = Append(@, step)]

\* The chain returns rv (result "returned") or re-raises what it caught
ChainEnd(c, res, rv) == [c EXCEPT !.step = "done", !.result = res, !.ret = rv]

\* A handler outcome that is never taken for a failure
FailedNever(res) == FALSE

\* The awaited handler raised: control is in the chain's except clause
Failed(res) == res # "returned"

\* RAGChain.run stopping when the search found nothing
AfterSearchNeedsResults(c, results) ==
    IF results = <<>> THEN ChainEnd(c, "NoResults", <<>>)
    ELSE LET context == Join(ContextParts(results))
         IN  [ChainStep(c, "generate") EXCEPT
                 !.search_results = results,
                 !.context = context,
                 !.sources = Sources(results),
                 !.prompt = <<[context |-> context, query |-> c.query]>>]

\* RAGChain.run from the return of search_similar to the await of generate
AfterSearch(c, results) ==
    LET context == Join(ContextParts(results))
    IN  [ChainStep(c, "generate") EXCEPT
            !.search_results = results,
            !.context = context,
            !.sources = Sources(results),
            !.prompt = <<[context |-> context, query |-> c.query]>>]

\* The chain is entered with arguments c: its embedding request is out
ChainStart(c) == [ChainStep(c, "embed") EXCEPT !.embed = <<ChainEmbedRequest(c)>>]

\* query_documents: the RAGResult handed to the client
QueryResponse(rag) ==
    [query |-> rag.query, response |-> rag.response, sources |-> rag.sources]

\* RAGChain.run / EmbeddingChain.run entered: the embedding request is out
ChainCall(t) ==
    /\ NoneDone
    /\ store = "qdrant"
    /\ pc[t] = "idle"
    /\ chain[t].step = "idle"
    /\ calls < MaxCalls
    /\ \E c \in ChainArgs : chain' = [chain EXCEPT ![t] = ChainStart(c)]
    /\ UNCHANGED <<store, class_ready, lock_holder, lock_waiters, remote_class, objects,
                   uuid_next, pc, op, point_ids, result, ret, trace, calls, faulted,
                   create_requests, prov_ok, prov_failed, outer>>

\* embed_query / embed_batch raised, or returned: the chain calls
\* search_similar with the vector, or store_batch with as many vectors as the
\* embedding backend gave and the documents as metadata_list
EmbedReply(t) ==
    /\ chain[t].step = "embed"
    /\ \/ /\ chain' = [chain EXCEPT ![t] = ChainEnd(@, "VoyageError", <<>>)]
          /\ faulted' = TRUE
          /\ UNCHANGED <<store, class_ready, lock_holder, lock_waiters, remote_class, objects,
                         uuid_next, pc, op, point_ids, result, ret, trace, calls,
                         create_requests, prov_ok, prov_failed, outer>>
       \/ /\ chain[t].kind = "query"
          /\ Enter(t, {o \in SearchArgs : o.limit = chain[t].top_k /\ o.thr = chain[t].score_threshold})
          /\ chain' = [chain EXCEPT ![t] = ChainStep(@, "search")]
       \/ /\ chain[t].kind = "ingest"
          /\ Enter(t, {o \in StoreBatchArgs : o.nmeta = chain[t].documents})
          /\ chain' = [chain EXCEPT ![t] = ChainStep(@, "store")]

\* search_similar has ended
SearchReturned(t) ==
    /\ chain[t].step = "search"
    /\ pc[t] = "done"
    /\ Leave(t)
    /\ IF Failed(result[t])
       THEN chain' = [chain EXCEPT ![t] = ChainEnd(@, result[t], <<>>)]
       ELSE LET search_results == [i \in 1 .. Len(ret[t]) |->
                                      [id |-> ret[t][i].id, score |-> ret[t][i].score,
                                       metadata |-> Payload(ret[t][i].id)]]
            IN  chain' = [chain EXCEPT ![t] = AfterSearch(@, search_results)]

\* store_batch has ended
StoreReturned(t) ==
    /\ chain[t].step = "store"
    /\ pc[t] = "done"
    /\ Leave(t)
    /\ IF Failed(result[t])
       THEN chain' = [chain EXCEPT ![t] = ChainEnd(@, result[t], <<>>)]
       ELSE chain' = [chain EXCEPT ![t] = ChainEnd(@, "returned", ret[t])]

\* generate raised or returned the response
GenerateReply(t) ==
    /\ chain[t].step = "generate"
    /\ \/ /\ chain' = [chain EXCEPT ![t] = ChainEnd(@, "CerebrasError", <<>>)]
          /\ faulted' = TRUE
       \/ /\ \E response \in Responses :
                chain' = [chain EXCEPT ![t] =
                             ChainEnd(@, "returned",
                                      <<[response |-> response, sources |-> @.sources, query |-> @.query]>>)]
          /\ UNCHANGED faulted
    /\ UNCHANGED <<store, class_ready, lock_holder, lock_waiters, remote_class, objects,
                   uuid_next, pc, op, point_ids, result, ret, trace, calls,
                   create_requests, prov_ok, prov_failed, outer>>

\* The caller of the chain takes the outcome
ChainReturn(t) ==
    /\ chain[t].step = "done"
    /\ chain' = [chain EXCEPT ![t] = NoChain]
    /\ UNCHANGED <<store, class_ready, lock_holder, lock_waiters, remote_class, objects,
                   uuid_next, pc, op, point_ids, result, ret, trace, calls, faulted,
                   create_requests, prov_ok, prov_failed, outer>>

\* --------------------------------------------------------- create_document
\* documents.py create_document under the session of get_db.  The handler
\* calls repo.create(document_data); the call is taken as the handler words
\* it, an insert of the row that is flushed (DocumentRepository.create under
\* src/ takes a further owner_id argument, which this call does not pass).
\* embedding_chain.run(documents=[document_dict]): one document
DocumentIngest == [NoChain EXCEPT !.kind = "ingest", !.documents = 1]

\* The vector records written since the request came in
NewRecords(e) == {r \in objects : r.id \notin e.before}

\* POST /documents/ arrives: the session is open and repo.create awaits flush
CreateDocument(t) ==
    /\ NoneDone
    /\ store = "qdrant"
    /\ pc[t] = "idle"
    /\ chain[t].step = "idle"
    /\ endpoint[t].step = "idle"
    /\ calls < MaxCalls
    /\ endpoint' = [endpoint EXCEPT ![t] = [NoEndpoint EXCEPT !.step = "create", !.before = StoredIds]]
    /\ UNCHANGED <<clients, faulted, chain, provider, limiter>>

\* The flush of repo.create: the row is in the transaction and the handler
\* enters embedding_chain.run, or the flush raised, outside the handler's try
RowFlushed(t) ==
    /\ endpoint[t].step = "create"
    /\ \/ /\ endpoint' = [endpoint EXCEPT ![t].step = "ingest", ![t].row = "flushed"]
          /\ chain' = [chain EXCEPT ![t] = ChainStart(DocumentIngest)]
          /\ UNCHANGED faulted
       \/ /\ endpoint' = [endpoint EXCEPT ![t].step = "exit", ![t].raising = "DBError"]
          /\ faulted' = TRUE
          /\ UNCHANGED chain
    /\ UNCHANGED <<clients, provider, limiter>>

\* embedding_chain.run has ended: `except Exception` turns a failure into
\* HTTPException 500; with vector_ids the handler awaits update_vector_id
IngestReturned(t) ==
    /\ endpoint[t].step = "ingest"
    /\ chain[t].step = "done"
    /\ chain' = [chain EXCEPT ![t] = NoChain]
    /\ endpoint' = [endpoint EXCEPT ![t] =
                       IF Failed(chain[t].result)
                       THEN [@ EXCEPT !.step = "exit", !.raising = "HTTPException"]
                       ELSE IF chain[t].ret # <<>>
                       THEN [@ EXCEPT !.step = "update", !.vector_ids = chain[t].ret]
                       ELSE [@ EXCEPT !.step = "exit"]]
    /\ UNCHANGED <<clients, faulted, provider, limiter>>

\* repo.update_vector_id: the row gets vector_ids[0] and is flushed, or the
\* database raised, which the same except clause turns into HTTPException
VectorIdUpdated(t) ==
    /\ endpoint[t].step = "update"
    /\ \/ /\ endpoint' = [endpoint EXCEPT ![t].step = "exit", ![t].vector_id = endpoint[t].vector_ids[1]]
          /\ UNCHANGED faulted
       \/ /\ endpoint' = [endpoint EXCEPT ![t].step = "exit", ![t].raising = "HTTPException"]
          /\ faulted' = TRUE
    /\ UNCHANGED <<clients, chain, provider, limiter>>

\* database.py get_db after its yield: commit when the handler returned,
\* rollback and re-raise when the handler or the commit raised
SessionExit(t) ==
    /\ endpoint[t].step = "exit"
    /\ IF endpoint[t].raising # "none"
       THEN /\ endpoint' = [endpoint EXCEPT ![t].step = "done",
                                             ![t].row = IF @ = "flushed" THEN "rolled_back" ELSE @,
                                             ![t].result = endpoint[t].raising]
            /\ UNCHANGED faulted
       ELSE \/ /\ endpoint' = [endpoint EXCEPT ![t].step = "done", ![t].row = "committed",
                                                ![t].result = "returned"]
               /\ UNCHANGED faulted
            \/ /\ endpoint' = [endpoint EXCEPT ![t].step = "done", ![t].row = "rolled_back",
                                                ![t].result = "DBError"]
               /\ faulted' = TRUE
    /\ UNCHANGED <<clients, chain, provider, limiter>>

\* The response is sent; the task is free for the next request
DocumentReturn(t) ==
    /\ endpoint[t].step = "done"
    /\ endpoint' = [endpoint EXCEPT ![t] = NoEndpoint]
    /\ UNCHANGED <<clients, faulted, chain, provider, limiter>>

\* ------------------------------------------------------ enforce_rate_limit
\* cache_client.increment_with_expiry(key, expire_seconds): the counter of the
\* key goes up by one in one step of Redis, and a key that was not there
\* expires expire_seconds from now
IncrementWithExpiry(redis, key, expire_seconds, now) ==
    With(redis, key, IF Counter(redis, key).count = 0
                     THEN [count |-> 1, expires |-> now + expire_seconds]
                     ELSE [Counter(redis, key) EXCEPT !.count = @ + 1])

\* cache_client.ttl(key): the seconds the key has left, -2 when Redis does
\* not hold it
Ttl(redis, key, now) == IF Counter(redis, key).count = 0 THEN -2 ELSE redis[key].expires - now

\* rate_limit.py: `if count <= requests_per_window: return`
Admitted(count, requests_per_window) == count <= requests_per_window

\* enforce_rate_limit is called for a scope and an identifier: the key is
\* built from the clock and increment_with_expiry is awaited
EnforceRateLimit(t) ==
    /\ limiter.call[t].step = "idle"
    /\ limiter.started < MaxCalls
    /\ \E scope \in Scopes, identifier \in Identifiers :
          LET key == RateLimitKey(scope, identifier, RateLimits[scope].window_seconds, limiter.now)
          IN  limiter' = [limiter EXCEPT !.started = @ + 1,
                                         !.call[t] = [NoLimit EXCEPT !.step = "increment", !.key = key]]
    /\ UNCHANGED <<clients, faulted, chain, provider, endpoint>>

\* Redis counts the call: it is let through, or ttl is awaited
CacheIncrement(t) ==
    /\ limiter.call[t].step = "increment"
    /\ LET key == limiter.call[t].key
           limit == RateLimits[key.scope]
           redis == IncrementWithExpiry(limiter.redis, key, limit.window_seconds, limiter.now)
           count == redis[key].count
           rank == CountOf(limiter.counted, key) + 1
           counted == [limiter EXCEPT !.redis = redis, !.counted = With(@, key, rank),
                                      !.call[t].count = count,
                                      !.call[t].rank = rank]
       IN  IF Admitted(count, limit.requests_per_window)
           THEN limiter' = [counted EXCEPT !.admitted = With(@, key, CountOf(@, key) + 1),
                                           !.call[t].step = "done", !.call[t].result = "admitted"]
           ELSE limiter' = [counted EXCEPT !.call[t].step = "ttl"]
    /\ UNCHANGED <<clients, faulted, chain, provider, endpoint>>

\* ttl answered: HTTP 429 with Retry-After max(retry_after, 1)
CacheTtl(t) ==
    /\ limiter.call[t].step = "ttl"
    /\ LET retry_after == Ttl(limiter.redis, limiter.call[t].key, limiter.now)
       IN  limiter' = [limiter EXCEPT !.call[t].step = "done", !.call[t].result = "429",
                                      !.call[t].retry_after_seconds = Max(retry_after, 1)]
    /\ UNCHANGED <<clients, faulted, chain, provider, endpoint>>

\* The dependency has returned or raised
RateLimitReturn(t) ==
    /\ limiter.call[t].step = "done"
    /\ limiter' = [limiter EXCEPT !.call[t] = NoLimit]
    /\ UNCHANGED <<clients, faulted, chain, provider, endpoint>>

\* A second passes: Redis drops the keys whose time is up
Tick ==
    /\ limiter.now < MaxTime
    /\ limiter' = [limiter EXCEPT !.now = @ + 1,
                                  !.redis = [k \in {h \in DOMAIN @ : @[h].expires > limiter.now + 1} |-> @[k]]]
    /\ UNCHANGED <<clients, faulted, chain, provider, endpoint>>

\* ---------------------------------------------- the provider clients alone
\* Texts a caller may pass: the empty text and a text of one character
Texts == {<<>>, <<1>>}

\* Values a caller may pass for max_tokens and for temperature; None is the
\* parameter left out.  Temperatures are in tenths.
Supplied == {None, 0, 1}

CEREBRAS_MAX_TOKENS == 1024
CEREBRAS_TEMPERATURE == 7

ProviderArgs ==
    {[NoProvider EXCEPT !.kind = k, !.texts = <<x>>] : k \in {"embed_text", "embed_query"}, x \in Texts}
    \cup {[NoProvider EXCEPT !.kind = "embed_batch", !.texts = xs, !.input_type = m] :
             xs \in SeqsUpTo(Texts, MaxBatch), m \in {Omitted, "document", "query"}}
    \cup {[NoProvider EXCEPT !.kind = k, !.max_tokens = m, !.temperature = x] :
             k \in {"generate", "stream_generate"}, m \in Supplied, x \in Supplied}

\* Python's `value or default`: None, 0 and 0.0 are false
OrDefault(value, default) == IF value = None \/ value = 0 THEN default ELSE value

\* cerebras_client.py generate and stream_generate: the arguments of
\* chat.completions.create
GenerateRequest(max_tokens, temperature) ==
    [max_tokens |-> OrDefault(max_tokens, CEREBRAS_MAX_TOKENS),
     temperature |-> OrDefault(temperature, CEREBRAS_TEMPERATURE)]

\* The method of the provider client, from its entry to its request: no
\* method looks at its arguments before it calls the backend
ProviderRequest(p) ==
    IF p.kind = "embed_text" THEN EmbedTextRequest(p.texts[1])
    ELSE IF p.kind = "embed_query" THEN EmbedQueryRequest(p.texts[1])
    ELSE IF p.kind = "embed_batch" THEN EmbedBatchRequest(p.texts, p.input_type)
    ELSE GenerateRequest(p.max_tokens, p.temperature)

\* A method of VoyageClient or CerebrasClient is called
ProviderCall(t) ==
    /\ provider[t].step = "idle"
    /\ \E p \in ProviderArgs :
          provider' = [provider EXCEPT ![t] = [p EXCEPT !.step = "request", !.sent = <<ProviderRequest(p)>>]]
    /\ UNCHANGED <<clients, faulted, chain, endpoint, limiter>>

\* The backend answered or the request failed: the method returns, or logs
\* and re-raises
ProviderReply(t) ==
    /\ provider[t].step = "request"
    /\ \/ /\ provider' = [provider EXCEPT ![t].step = "done", ![t].result = "returned"]
          /\ UNCHANGED faulted
       \/ /\ provider' = [provider EXCEPT ![t].step = "done", ![t].result = "ProviderError"]
          /\ faulted' = TRUE
    /\ UNCHANGED <<clients, chain, endpoint, limiter>>

\* The caller of the provider client takes the outcome
ProviderReturn(t) ==
    /\ provider[t].step = "done"
    /\ provider' = [provider EXCEPT ![t] = NoProvider]
    /\ UNCHANGED <<clients, faulted, chain, endpoint, limiter>>

\* ---------------------------------------------------------- specifications
DataArgs == StoreEmbeddingArgs \cup StoreBatchArgs \cup SearchArgs \cup DeleteArgs

\* The requests of the concurrent specification: every handler, with batches of
\* at most one vector and searches for one result
ConcArgs == {o \in DataArgs : Len(o.vlens) <= 1 /\ o.nmeta <= 1 /\ o.limit <= 1 /\ o.thr = 0 /\ o.pid \in {0, 1}}

\* Concurrent requests storing, searching and deleting through one store
Next ==
    \E t \in Tasks :
        \/ Call(t, ConcArgs)
        \/ LockGranted(t)
        \/ SchemaReply(t)
        \/ CreateReply(t)
        \/ DataReply(t)
        \/ Return(t)

Spec == Init /\ [][Next]_vars

\* Concurrent callers of the public ensure_collection
NextEnsure ==
    \E t \in Tasks :
        \/ Call(t, EnsureArgs)
        \/ SchemaReply(t)
        \/ CreateReply(t)
        \/ Return(t)

SpecEnsure == Init /\ [][NextEnsure]_vars

\* One caller at a time storing and deleting, with batches of every size
StoreArgs == StoreEmbeddingArgs \cup StoreBatchArgs \cup DeleteArgs

NextStore ==
    \/ Call(1, StoreArgs)
    \/ SchemaReply(1)
    \/ CreateReply(1)
    \/ DataReply(1)
    \/ Return(1)

SpecStore == Init /\ [][NextStore]_vars

\* One caller at a time searching, with every reply the backend may give
NextSearch ==
    \/ Call(1, SearchArgs)
    \/ SchemaReply(1)
    \/ CreateReply(1)
    \/ DataReply(1)
    \/ Return(1)

SpecSearch == Init /\ [][NextSearch]_vars

\* One caller at a time running RAGChain and EmbeddingChain
NextChain ==
    \/ ChainCall(1)
    \/ EmbedReply(1)
    \/ DataReply(1)
    \/ SearchReturned(1)
    \/ StoreReturned(1)
    \/ GenerateReply(1)
    \/ ChainReturn(1)

SpecChain == Init /\ [][NextChain]_vars

\* One caller at a time storing and deleting, directly and through the chains
NextIngest ==
    \/ Call(1, StoreArgs)
    \/ SchemaReply(1)
    \/ CreateReply(1)
    \/ DataReply(1)
    \/ Return(1)
    \/ ChainCall(1)
    \/ EmbedReply(1)
    \/ SearchReturned(1)
    \/ StoreReturned(1)
    \/ GenerateReply(1)
    \/ ChainReturn(1)

SpecIngest == Init /\ [][NextIngest]_vars

\* One caller at a time calling the embedding and the generation client
NextProvider ==
    \/ ProviderCall(1)
    \/ ProviderReply(1)
    \/ ProviderReturn(1)

SpecProvider == Init /\ [][NextProvider]_vars

\* One caller at a time posting documents
NextDocument ==
    \/ CreateDocument(1)
    \/ RowFlushed(1)
    \/ EmbedReply(1)
    \/ DataReply(1)
    \/ StoreReturned(1)
    \/ IngestReturned(1)
    \/ VectorIdUpdated(1)
    \/ SessionExit(1)
    \/ DocumentReturn(1)

SpecDocument == Init /\ [][NextDocument]_vars

\* Concurrent requests through the rate limiting dependencies
NextLimit ==
    \/ \E t \in Tasks :
          \/ EnforceRateLimit(t)
          \/ CacheIncrement(t)
          \/ CacheTtl(t)
          \/ RateLimitReturn(t)
    \/ Tick

SpecLimit == Init /\ [][NextLimit]_vars

\* Every request sent is answered or times out, and the event loop runs every
\* task that is ready; nothing obliges a caller to start a new request
Fairness ==
    \A t \in Tasks :
        /\ WF_vars(LockGranted(t))
        /\ WF_vars(SchemaReply(t))
        /\ WF_vars(CreateReply(t))
        /\ WF_vars(DataReply(t))
        /\ WF_vars(Return(t))

\* The requests of the fair specification: every handler but store_batch, whose
\* way through the lock is store_embedding's
LockArgs == {o \in ConcArgs : o.kind # "store_batch" /\ (o.kind = "store_embedding" => o.pid = 0)}

NextLock ==
    \E t \in Tasks :
        \/ Call(t, LockArgs)
        \/ LockGranted(t)
        \/ SchemaReply(t)
        \/ CreateReply(t)
        \/ DataReply(t)
        \/ Return(t)

FairSpec == Init /\ [][NextLock]_vars /\ Fairness

\* Concurrent requests through one store together with direct calls of
\* ensure_collection
NextProvision ==
    \E t \in Tasks :
        \/ Call(t, LockArgs \cup EnsureArgs)
        \/ LockGranted(t)
        \/ SchemaReply(t)
        \/ CreateReply(t)
        \/ DataReply(t)
        \/ Return(t)

SpecProvision == Init /\ [][NextProvision]_vars

\* ------------------------------------------------------------------ claims
\* The tasks inside ensure_collection on behalf of _ensure_collection_once
Provisioning == {t \in Tasks : pc[t] \in {"get_schema", "post_schema"} /\ op[t].kind # "ensure_collection"}

\* C1: of the tasks whose store / search / delete meets an unprovisioned
\* Weaviate store, at most one is provisioning or has provisioned with success
\* (so exactly one provisions when its attempt succeeds), every other task that
\* has entered a handler stays suspended on the lock while it does, and a task
\* is past _ensure_collection_once only with the collection Ready.
C1_ProvisionedOnce ==
    store = "weaviate" =>
        /\ Cardinality(Provisioning) + prov_ok <= 1
        /\ class_ready <=> prov_ok = 1
        /\ \A t \in Provisioning : \A u \in Tasks \ {t} : pc[u] \in {"idle", "waiting", "done"}
        /\ \A t \in Tasks : pc[t] = "waiting" => trace[t].net = 0 /\ ~trace[t].ensured
        /\ \A t \in Tasks : pc[t] = "request" \/ trace[t].ensured => class_ready

\* C1 witness: one task provisioned, the other waited for it on the lock, and
\* both have their requests out with the collection Ready
C1_Witness ==
    /\ store = "weaviate"
    /\ ~prov_failed
    /\ \E t, u \in Tasks :
        /\ trace[t].prov /\ pc[t] = "request"
        /\ trace[u].waited /\ ~trace[u].prov /\ pc[u] = "request"
    /\ class_ready

\* C2: with no request failing in transit, concurrent or successive calls of
\* ensure_collection send at most one create request and all return normally.
C2_OneCreate ==
    ~faulted =>
        /\ create_requests <= 1
        /\ \A t \in Tasks : pc[t] = "done" => result[t] = "returned"

\* The lock is held only by a task inside provisioning, it is free and the
\* store unprovisioned when nobody provisions and nobody has, and the tasks
\* suspended on it are in its queue
C3_LockHeldOnlyWhileProvisioning ==
    /\ lock_holder # 0 => lock_holder \in Provisioning
    /\ Provisioning = {} /\ prov_ok = 0 => ~class_ready /\ lock_holder = 0
    /\ \A t \in Tasks : pc[t] = "waiting" => \E i \in 1 .. Len(lock_waiters) : lock_waiters[i] = t

\* A provisioning that ends without ensure_collection having returned leaves
\* the lock free and _class_ready False
C3_FailureReleases ==
    \A t \in Tasks :
        t \in Provisioning /\ pc'[t] = "done" /\ ~trace'[t].ensured =>
            lock_holder' = 0 /\ ~class_ready'

\* C3: the lock is held only by a task inside provisioning; a provisioning that
\* fails leaves the lock free and the store unprovisioned, so that a later
\* request provisions again; and no task stays suspended on the lock forever.
C3_FailureRetriable ==
    /\ []C3_LockHeldOnlyWhileProvisioning
    /\ [][C3_FailureReleases]_vars
    /\ \A t \in Tasks : (pc[t] = "waiting") ~> (pc[t] # "waiting")

\* C3 witness: provisioning has failed, a later attempt has made the
\* collection Ready, and the lock is free
C3_Witness == prov_failed /\ class_ready /\ lock_holder = 0 /\ lock_waiters = <<>>

\* C4: a task that was suspended on the lock when provisioning failed does not
\* provision itself and ends with that failure.
C4_WaitersShareFailure ==
    \A t \in Tasks :
        trace[t].sawFail =>
            /\ ~trace[t].prov
            /\ pc[t] \in {"waiting", "done"}
            /\ pc[t] = "done" => result[t] = "HTTPError"

\* C5: on both stores a handler's own request is out only after the handler
\* has ensured the collection.
C5_EnsuredBeforeRequest ==
    \A t \in Tasks : pc[t] = "request" => trace[t].ensured

\* C6: a store_embedding, store_batch or search_similar given a vector of the
\* wrong length ends in ValueError, creates no collection and writes no record
\* (stated for the runs where no request fails in transit and where the Qdrant
\* collection exists, so that nothing but the vector is wrong).
C6_BadDimensionRejectedCleanly ==
    \A t \in Tasks :
        /\ op[t].kind \in {"store_embedding", "store_batch", "search_similar"}
        /\ BadDimension(op[t])
        /\ ~faulted
        /\ store = "qdrant" => remote_class
        =>
            /\ ~trace[t].created
            /\ trace[t].wrote = 0
            /\ pc[t] = "done" => result[t] = "ValueError"

\* C7: a store_batch whose two lists differ in length sends no request at all.
C7_MismatchNoNetwork ==
    \A t \in Tasks :
        op[t].kind = "store_batch" /\ Len(op[t].vlens) # op[t].nmeta => trace[t].net = 0

\* C8: a store_batch whose reply reports an error, for the batch or for any
\* object, raises and returns no ids; it returns ids only when every object
\* of the batch was written, and then one id per object.
C8_BatchAllOrError ==
    \A t \in Tasks :
        op[t].kind = "store_batch" /\ pc[t] = "done" =>
            /\ trace[t].reported => result[t] # "returned" /\ ret[t] = <<>>
            /\ result[t] = "returned" =>
                /\ trace[t].wrote = Len(op[t].vlens)
                /\ Len(ret[t]) = Len(op[t].vlens)
                /\ SetOf(ret[t]) \subseteq StoredIds

\* C8 witness: the backend took one object of a batch and refused another,
\* and store_batch raised
C8_Witness ==
    \E t \in Tasks :
        /\ op[t].kind = "store_batch" /\ pc[t] = "done"
        /\ trace[t].reported /\ trace[t].wrote >= 1
        /\ result[t] = "RuntimeError"

\* C9: a search_similar that returns gives at most `limit` entries, each with
\* a score of at least score_threshold.
C9_LimitAndThreshold ==
    \A t \in Tasks :
        op[t].kind = "search_similar" /\ pc[t] = "done" /\ result[t] = "returned" =>
            /\ Len(ret[t]) <= op[t].limit
            /\ \A i \in 1 .. Len(ret[t]) : ret[t][i].score >= op[t].thr

\* C9 witness: a Weaviate search returned the second entry of the reply alone,
\* the first one having scored under the threshold
C9_Witness ==
    \E t \in Tasks :
        /\ store = "weaviate"
        /\ op[t].kind = "search_similar" /\ pc[t] = "done" /\ result[t] = "returned"
        /\ op[t].thr > 0
        /\ Len(ret[t]) = 1 /\ ret[t][1].id = 2

\* C10: a search_similar that returns gives its entries by descending score.
C10_Descending ==
    \A t \in Tasks :
        op[t].kind = "search_similar" /\ pc[t] = "done" /\ result[t] = "returned" =>
            IsDescending(ret[t])

\* C11: on both stores a delete_by_id whose request is answered returns True
\* exactly when a record with that id was in the collection and the call
\* removed it, and returns False, without raising, when there was none.
C11_DeleteReportsFound ==
    [][\A t \in Tasks :
          /\ op[t].kind = "delete_by_id"
          /\ pc[t] = "request" /\ pc'[t] = "done"
          /\ faulted' = faulted
          /\ store = "qdrant" => remote_class
          =>
            /\ result'[t] = "returned"
            /\ ret'[t] = <<op[t].pid \in StoredIds>>
            /\ op[t].pid \notin StoredIds']_vars

\* C12: a delete_by_id that returns False leaves no record with that id: a
\* request that failed is not reported as False.
C12_FalseMeansAbsent ==
    \A t \in Tasks :
        op[t].kind = "delete_by_id" /\ pc[t] = "done" /\ result[t] = "returned" /\ ret[t] = <<FALSE>> =>
            op[t].pid \notin StoredIds

\* C13: a store_embedding, store_batch or delete_by_id answered by the
\* Weaviate backend without an error ends as the same call ends in the Qdrant
\* client against the same collection: same outcome, same ids, same flag.
C13_SameOutcome ==
    [][\A t \in Tasks :
          /\ store = "weaviate"
          /\ op[t].kind \in {"store_embedding", "store_batch", "delete_by_id"}
          /\ pc[t] = "request" /\ pc'[t] = "done"
          /\ faulted' = faulted
          /\ ~trace'[t].reported
          =>
            /\ result'[t] = QdrantResult(op[t], point_ids[t], uuid_next).result
            /\ ret'[t] = QdrantResult(op[t], point_ids[t], uuid_next).ret]_vars

IsPrefix(a, b) == Len(a) <= Len(b) /\ \A i \in 1 .. Len(a) : a[i] = b[i]

Last(a) == a[Len(a)]

\* C14: within one run of RAGChain the remote steps are issued in the order
\* embed, search, generate and within one run of EmbeddingChain in the order
\* embed, store, each at most once; the step awaited is the last one issued,
\* and the store's handler runs only while the chain awaits it, so that
\* search and store start after the embedding returned and generation after
\* the search returned.
C14_StepsInOrder ==
    \A t \in Tasks :
        /\ chain[t].kind = "query" => IsPrefix(chain[t].issued, <<"embed", "search", "generate">>)
        /\ chain[t].kind = "ingest" => IsPrefix(chain[t].issued, <<"embed", "store">>)
        /\ chain[t].step \in {"embed", "search", "store", "generate"} =>
              chain[t].issued # <<>> /\ Last(chain[t].issued) = chain[t].step
        /\ pc[t] # "idle" => chain[t].step \in {"search", "store"}

\* C14 witness: a query has gone through its three steps and returned
C14_Witness ==
    \E t \in Tasks :
        /\ chain[t].kind = "query" /\ chain[t].step = "done" /\ chain[t].result = "returned"
        /\ chain[t].issued = <<"embed", "search", "generate">>

\* A chain that has ended in an error returns nothing and the step that
\* failed is the last one it issued; one that returned issued every step
C15_NoPartialResult ==
    \A t \in Tasks :
        chain[t].step = "done" =>
            /\ chain[t].result # "returned" =>
                  /\ chain[t].ret = <<>>
                  /\ Last(chain[t].issued) = "embed" <=> chain[t].result = "VoyageError"
                  /\ Last(chain[t].issued) = "generate" <=> chain[t].result = "CerebrasError"
                  /\ Last(chain[t].issued) \in {"search", "store"} =>
                        chain[t].result \in {"HTTPError", "ValueError"}
            /\ chain[t].result = "returned" =>
                  chain[t].issued = IF chain[t].kind = "query"
                                    THEN <<"embed", "search", "generate">>
                                    ELSE <<"embed", "store">>

\* A search_similar or store_batch that raised ends the chain at once, with
\* the error it raised
C15_HandlerFailureEnds ==
    \A t \in Tasks :
        /\ chain[t].step \in {"search", "store"}
        /\ pc[t] = "done" /\ result[t] # "returned"
        /\ chain'[t] # chain[t]
        =>
            /\ chain'[t].step = "done"
            /\ chain'[t].result = result[t]
            /\ chain'[t].issued = chain[t].issued

\* C15: a failure in a step of RAGChain.run or EmbeddingChain.run ends the run
\* with that error: no later step is issued and nothing is returned.
C15_FailureAborts == []C15_NoPartialResult /\ [][C15_HandlerFailureEnds]_vars

\* C15 witness: a query whose search failed has ended with the search's error
C15_Witness ==
    \E t \in Tasks :
        /\ chain[t].kind = "query" /\ chain[t].step = "done"
        /\ chain[t].result = "HTTPError"
        /\ chain[t].issued = <<"embed", "search">>

\* C16: EmbeddingChain awaits store_batch only with as many vectors as it has
\* documents: an embed_batch that got another number of vectors has raised.
C16_CountMismatchFailsEmbed ==
    \A t \in Tasks :
        chain[t].kind = "ingest" /\ chain[t].step = "store" =>
            Len(op[t].vlens) = chain[t].documents

\* A query that is past its search with no result has an empty context and
\* no source, and ends with the response or with the error of generate
C17_EmptyContext ==
    \A t \in Tasks :
        /\ chain[t].kind = "query"
        /\ Len(chain[t].issued) = 3
        /\ chain[t].search_results = <<>>
        =>
            /\ chain[t].context = <<>>
            /\ chain[t].prompt[1].context = <<>>
            /\ chain[t].step = "done" =>
                  /\ chain[t].result \in {"returned", "CerebrasError"}
                  /\ chain[t].result = "returned" =>
                        /\ chain[t].ret[1].sources = <<>>
                        /\ chain[t].ret[1].response \in Responses

\* A search_similar that returned no result is followed by generate
C17_EmptySearchGenerates ==
    \A t \in Tasks :
        /\ chain[t].step = "search"
        /\ pc[t] = "done" /\ result[t] = "returned" /\ ret[t] = <<>>
        /\ chain'[t] # chain[t]
        =>
            /\ chain'[t].step = "generate"
            /\ chain'[t].issued = <<"embed", "search", "generate">>

\* C17: when search_similar returns no result the context is empty, generate
\* is still called, once, and the query returns the response with no source.
C17_EmptySearchStillAnswers == []C17_EmptyContext /\ [][C17_EmptySearchGenerates]_vars

\* C17 witness: a query whose search found nothing has returned a response
C17_Witness ==
    \E t \in Tasks :
        /\ chain[t].kind = "query" /\ chain[t].step = "done" /\ chain[t].result = "returned"
        /\ chain[t].search_results = <<>>
        /\ chain[t].ret[1].sources = <<>>

\* Past the search, the sources are the search results, each with its id,
\* score and metadata, in their order; the context is their texts in that
\* order; and the RAGResult and the QueryResponse carry these sources
C18_SourcesKept ==
    \A t \in Tasks :
        chain[t].kind = "query" /\ Len(chain[t].issued) = 3 =>
            LET results == chain[t].search_results
            IN  /\ chain[t].sources = results
                /\ chain[t].context = Join([i \in 1 .. Len(results) |-> TextOf(results[i].metadata)])
                /\ chain[t].prompt[1].context = chain[t].context
                /\ chain[t].step = "done" /\ chain[t].result = "returned" =>
                      QueryResponse(chain[t].ret[1]).sources = results

\* The search results the chain works on are the entries search_similar
\* returned, in their order
C18_ResultsTaken ==
    \A t \in Tasks :
        /\ chain[t].step = "search"
        /\ pc[t] = "done" /\ result[t] = "returned"
        /\ chain'[t] # chain[t]
        =>
            /\ Len(chain'[t].search_results) = Len(ret[t])
            /\ \A i \in 1 .. Len(ret[t]) :
                  /\ chain'[t].search_results[i].id = ret[t][i].id
                  /\ chain'[t].search_results[i].score = ret[t][i].score

\* C18: the sources of a RAGResult are the results search_similar returned to
\* that query, in the same number and order, each with its id, score and
\* metadata, and the context given to generate is built from them in order.
C18_SourcesAreResults == []C18_SourcesKept /\ [][C18_ResultsTaken]_vars

\* C18 witness: a query returned two sources that differ, the first with an
\* empty text and the second without the "text" key
C18_Witness ==
    \E t \in Tasks :
        /\ chain[t].kind = "query" /\ chain[t].step = "done" /\ chain[t].result = "returned"
        /\ Len(chain[t].ret[1].sources) = 2
        /\ chain[t].ret[1].sources[1].score > chain[t].ret[1].sources[2].score
        /\ chain[t].ret[1].sources[1].metadata = [text |-> <<>>, source |-> 2]
        /\ chain[t].ret[1].sources[2].metadata = [source |-> 1]

Distinct(ids) == \A i, j \in 1 .. Len(ids) : i # j => ids[i] # ids[j]

\* The ids returned are as many as the documents, pairwise distinct, and the
\* collection holds the i-th document under the i-th id
WrittenInOrder(ids, n) ==
    /\ Len(ids) = n
    /\ Distinct(ids)
    /\ \A i \in 1 .. n : [id |-> ids[i], doc |-> i] \in objects

C19_IdsMatchDocuments ==
    \A t \in Tasks :
        /\ op[t].kind = "store_batch" /\ pc[t] = "done" /\ result[t] = "returned" =>
              Len(op[t].vlens) = op[t].nmeta /\ WrittenInOrder(ret[t], op[t].nmeta)
        /\ chain[t].kind = "ingest" /\ chain[t].step = "done" /\ chain[t].result = "returned" =>
              WrittenInOrder(chain[t].ret, chain[t].documents)

\* The ids a store_batch returns were not in the collection before its write
C19_IdsFresh ==
    \A t \in Tasks :
        /\ op[t].kind = "store_batch"
        /\ pc[t] = "request" /\ pc'[t] = "done" /\ result'[t] = "returned"
        =>
            \A i \in 1 .. Len(ret'[t]) : ret'[t][i] \notin StoredIds

\* C19: a store_batch, or an EmbeddingChain run, of n documents that returns
\* gives n ids, the i-th being the id the i-th document is stored under, and
\* the ids are pairwise distinct and distinct from every id the collection
\* held (uuid4 never repeating a value).
C19_BatchIds == []C19_IdsMatchDocuments /\ [][C19_IdsFresh]_vars

\* C19 witness: an EmbeddingChain run of two documents returned two ids on a
\* collection that held a record already
C19_Witness ==
    \E t \in Tasks :
        /\ chain[t].kind = "ingest" /\ chain[t].step = "done" /\ chain[t].result = "returned"
        /\ Len(chain[t].ret) = 2
        /\ Cardinality(objects) = 3

\* C20: the collection holds at most one record per id, and a store_embedding
\* given an id, with a vector of the right length and its request answered by
\* an existing collection, returns that id with the record it wrote stored
\* under it, whether or not the id was there before.
C20_UpsertReplaces ==
    /\ \A r, q \in objects : r.id = q.id => r = q
    /\ \A t \in Tasks :
          /\ op[t].kind = "store_embedding" /\ op[t].pid # 0
          /\ ~BadDimension(op[t])
          /\ pc[t] = "done"
          /\ ~faulted
          /\ store = "qdrant" => remote_class
          =>
            /\ result[t] = "returned"
            /\ ret[t] = <<op[t].pid>>
            /\ [id |-> op[t].pid, doc |-> 1] \in objects

\* ---------------------------------------------------------------- C21
\* C21: every embedding request of RAGChain.run is tagged "query", every
\* embedding request of EmbeddingChain.run is tagged "document", and the
\* input_type of every request sent is one the caller of the provider stated
C21_ModeStated ==
    \A t \in Tasks : \A i \in 1 .. Len(chain[t].embed) :
        LET request == chain[t].embed[i]
        IN  /\ chain[t].kind = "query" => request.input_type = "query"
            /\ chain[t].kind = "ingest" => request.input_type = "document"
            /\ request.stated

\* ---------------------------------------------------------------- C22
\* C22: embed_text / embed_query called with an empty text sends no request to
\* the embedding backend and fails with InvalidInput
C22_EmptyTextRejected ==
    \A t \in Tasks :
        provider[t].kind \in {"embed_text", "embed_query"} /\ provider[t].texts = <<(<<>>)>> =>
            /\ provider[t].sent = <<>>
            /\ provider[t].step = "done" => provider[t].result = "InvalidInput"

\* ---------------------------------------------------------------- C23
\* C23: generate and stream_generate send the provider default for max_tokens
\* and temperature exactly when the parameter was left out; a value the caller
\* supplied, 0 included, is the value sent
C23_DefaultsOnlyWhenOmitted ==
    \A t \in Tasks : \A i \in 1 .. Len(provider[t].sent) :
        provider[t].kind \in {"generate", "stream_generate"} =>
            /\ provider[t].sent[i].max_tokens =
                   IF provider[t].max_tokens = None THEN CEREBRAS_MAX_TOKENS ELSE provider[t].max_tokens
            /\ provider[t].sent[i].temperature =
                   IF provider[t].temperature = None THEN CEREBRAS_TEMPERATURE ELSE provider[t].temperature

\* ---------------------------------------------------------------- C24
\* The conversion rule as the spec words it, for an entry with a certainty or
\* a distance
Rule(e) ==
    IF e.certainty # None THEN e.certainty
    ELSE IF Scale - e.distance > 0 THEN Scale - e.distance ELSE 0

HasScore(e) == e.certainty # None \/ e.distance # None

\* C24: the score of every result of the Weaviate search is the entry's
\* certainty when it has one and max(0, 1 - distance) otherwise, so it is
\* never negative, and an entry is returned exactly when that score reaches
\* the threshold
C24_ScoreRule ==
    \A t \in Tasks :
        store = "weaviate" /\ op[t].kind = "search_similar" /\ pc[t] = "done" /\ result[t] = "returned" =>
            LET reply == trace[t].reply
                found == ret[t]
            IN  /\ \A i \in 1 .. Len(found) :
                       /\ found[i].id \in 1 .. Len(reply)
                       /\ found[i].score >= 0
                       /\ HasScore(reply[found[i].id]) => found[i].score = Rule(reply[found[i].id])
                /\ \A k \in 1 .. Len(reply) :
                       HasScore(reply[k]) =>
                           ((\E i \in 1 .. Len(found) : found[i].id = k) <=> Rule(reply[k]) >= op[t].thr)

\* A search returned a result whose distance is beyond 1 with score 0, and
\* one scored by its certainty
C24_Witness ==
    \E t \in Tasks :
        /\ store = "weaviate" /\ op[t].kind = "search_similar"
        /\ pc[t] = "done" /\ result[t] = "returned"
        /\ \E i, j \in 1 .. Len(ret[t]) :
              /\ trace[t].reply[ret[t][i].id].certainty = None
              /\ trace[t].reply[ret[t][i].id].distance = Scale + 1
              /\ ret[t][i].score = 0
              /\ trace[t].reply[ret[t][j].id].certainty # None
              /\ ret[t][j].score > 0

\* ---------------------------------------------------------------- C25
\* C25: a handler of the Weaviate client that has returned or raised holds no
\* open connection, whichever way it ended, and never holds more than the one
\* of the request it awaits
C25_ConnectionsReleased ==
    \A t \in Tasks :
        store = "weaviate" =>
            /\ pc[t] \in {"done", "idle", "waiting"} => trace[t].open = 0
            /\ trace[t].open <= 1

\* A handler raised after two requests, the last one failed, and holds nothing
C25_Witness ==
    \E t \in Tasks :
        /\ store = "weaviate" /\ pc[t] = "done"
        /\ result[t] = "HTTPError" /\ trace[t].net >= 2 /\ trace[t].open = 0

\* ---------------------------------------------------------------- C26
\* The listing of ensure_collection is answered while the collection exists
C26_ExistingLeftAlone ==
    \A t \in Tasks :
        pc[t] = "get_schema" /\ pc'[t] # "get_schema" /\ remote_class =>
            /\ create_requests' = create_requests
            /\ pc'[t] # "post_schema"
            /\ remote_class' /\ objects' = objects
            /\ trace'[t].ensured \/ faulted'
            /\ trace'[t].ensured /\ op[t].kind # "ensure_collection" => class_ready' /\ lock_holder' = 0
            /\ trace'[t].ensured /\ op[t].kind = "ensure_collection" => result'[t] = "returned"

\* C26: when the collection exists at the time ensure_collection lists the
\* collections, no create request is sent and the collection and its records
\* stay as they are; unless the listing request itself failed, ensure_collection
\* returns normally and, run from _ensure_collection_once, leaves the store
\* Ready with the lock free
C26_Idempotent == [][C26_ExistingLeftAlone]_vars

\* A handler provisioned a store whose collection existed: Ready, and no create
\* request was ever sent
C26_Witness ==
    \E t \in Tasks :
        /\ trace[t].prov /\ trace[t].ensured /\ ~trace[t].created
        /\ class_ready /\ remote_class /\ create_requests = 0

\* ---------------------------------------------------------------- C27
\* C27: a handler is past _ensure_collection_once only after it held the lock
\* inside it: it provisioned under the lock, or it was suspended on the lock
\* and read _class_ready once the lock was its own; no handler goes on because
\* of a value of _class_ready it read without the lock
C27_ReadinessReadUnderLock ==
    \A t \in Tasks :
        store = "weaviate" /\ op[t].kind \notin {"none", "ensure_collection"} /\ trace[t].ensured =>
            trace[t].prov \/ trace[t].waited

\* ---------------------------------------------------------------- C28
\* _class_ready is set only after a run of _ensure_collection_once whose
\* ensure_collection returned, and the collection is there
C28_Truthful == class_ready => prov_ok >= 1 /\ remote_class

\* No step clears _class_ready
C28_NeverCleared == class_ready => class_ready'

\* C28: whenever the readiness flag is set a provisioning attempt has completed
\* successfully and the collection exists remotely, and once set the flag is
\* never cleared, whatever the operations that follow do
C28_ReadyStays == []C28_Truthful /\ [][C28_NeverCleared]_vars

\* The store is Ready and a handler that went past provisioning has failed
C28_Witness ==
    \E t \in Tasks :
        /\ class_ready /\ trace[t].ensured
        /\ pc[t] = "done" /\ result[t] \notin {"none", "returned"}

C30_WindowLimit ==
    /\ \A k \in Keys : CountOf(limiter.admitted, k) <= RateLimits[k.scope].requests_per_window
    /\ \A t \in Tasks :
          LET call == limiter.call[t]
          IN  call.step = "done" =>
                  /\ call.result = "admitted" <=> call.rank <= RateLimits[call.key.scope].requests_per_window
                  /\ call.result # "admitted" => call.result = "429" /\ call.retry_after_seconds >= 1

====
